---------------------------- MODULE Spec2Model ----------------------------
(***************************************************************************)
(* The two POST handlers of api/analyze-asr.py and api/transcribe.py:      *)
(* validate -> download_youtube_audio -> transcribe_audio ->               *)
(* (analyze_with_gemini) -> respond -> cleanup_audio_file.                 *)
(*                                                                         *)
(* Every request r has its own handler frame (pc, audio_path, transcript,  *)
(* ...); the temp directory fs and the environment are shared.             *)
(***************************************************************************)
EXTENDS Integers, Sequences, FiniteSets, TLC

\* ------------------------------------------------------------- bounds
\* Requests that may be in flight together.
NumReq == 2
\* Longest chunk list the speech model returns.
MaxChunks == 2

\* ---------------------------------------------------- program constants
\* len(video_id) == 11
VideoIdLen == 11
\* sensitivity = request_data.get('sensitivity', 5); sensitivity_index = 5
DefaultSensitivity == 5
\* 1 <= sensitivity <= 10
MinSensitivity == 1
MaxSensitivity == 10
\* video_duration = request_data.get('videoDuration', 450); max_timestamp = 450
DefaultDuration == 450
\* video_duration > 10
MinDuration == 10
\* segment['offset'] / 1000, chunk['timestamp'][0] * 1000
MsPerSec == 1000
\* self.send_response(200)
HttpOk == 200

Reqs == 1 .. NumReq

\* --------------------------------------------------------- JSON values
\* A value of the request body.  Numbers are kept in halves (n = 15 is 7.5)
\* so that int() has something to truncate; "inf" is the float json.loads
\* makes of 1e999; "absent" is a key the body does not hold.
JAbsent == [t |-> "absent", s |-> <<>>, n |-> 0, b |-> FALSE]
JNull == [t |-> "null", s |-> <<>>, n |-> 0, b |-> FALSE]
JInf == [t |-> "inf", s |-> <<>>, n |-> 0, b |-> FALSE]
JStr(chars) == [t |-> "str", s |-> chars, n |-> 0, b |-> FALSE]
JNum(halves) == [t |-> "num", s |-> <<>>, n |-> halves, b |-> FALSE]
JBool(v) == [t |-> "bool", s |-> <<>>, n |-> 0, b |-> v]

\* request_data.get(key): None for a missing key
Get(v) == IF v.t = "absent" THEN JNull ELSE v
\* request_data.get(key, default)
GetDefault(v, default) == IF v.t = "absent" THEN JNum(2 * default) ELSE v

\* Python truthiness: `not video_id`
Truthy(v) ==
    CASE v.t = "null" -> FALSE
      [] v.t = "absent" -> FALSE
      [] v.t = "str" -> Len(v.s) > 0
      [] v.t = "num" -> v.n # 0
      [] v.t = "bool" -> v.b
      [] OTHER -> TRUE

\* isinstance(x, (int, float)): bool is a subclass of int
IsIntOrFloat(v) == v.t \in {"num", "bool", "inf"}
\* the number a bool or a number compares as, in halves
Halves(v) == IF v.t = "bool" THEN (IF v.b THEN 2 ELSE 0) ELSE v.n
\* int(x): truncation toward zero
IntTrunc(halves) == IF halves >= 0 THEN halves \div 2 ELSE -((-halves) \div 2)

\* ---------------------------------------------------------- characters
\* str.isalnum() of one character: Unicode letters and digits count.
AsciiLetters == {"a", "Q"}
AsciiDigits == {"4"}
UnicodeAlnum == {"e_acute"}
Punctuation == {"!"}
IsAlnumChar(c) == c \in AsciiLetters \cup AsciiDigits \cup UnicodeAlnum

\* str.replace(old, '') for a one-character old
Replace(str, old) == SelectSeq(str, LAMBDA c : c # old)
\* str.isalnum(): every character alphanumeric and at least one character
IsAlnum(str) == Len(str) > 0 /\ \A i \in 1 .. Len(str) : IsAlnumChar(str[i])

\* len(video_id) == 11 and video_id.replace('-', '').replace('_', '').isalnum()
ValidVideoId(video_id) ==
    /\ Len(video_id) = VideoIdLen
    /\ IsAlnum(Replace(Replace(video_id, "-"), "_"))


\* ------------------------------------------------------- request inputs
Rep(c, n) == [i \in 1 .. n |-> c]
\* eleven letters and digits, such as dQw4w9WgXcQ
IdAlnum == [i \in 1 .. VideoIdLen |-> IF i % 3 = 0 THEN "4" ELSE IF i % 3 = 1 THEN "a" ELSE "Q"]
\* letters with '-' and '_' among them
IdDashed == [i \in 1 .. VideoIdLen |-> IF i = 4 THEN "-" ELSE IF i = 7 THEN "_" ELSE "a"]
\* nothing but '-' and '_'
IdOnlyDashes == [i \in 1 .. VideoIdLen |-> IF i % 2 = 0 THEN "-" ELSE "_"]
\* ten ASCII letters and one accented letter
IdUnicode == [i \in 1 .. VideoIdLen |-> IF i = VideoIdLen THEN "e_acute" ELSE "a"]
\* ten ASCII letters and one '!'
IdPunct == [i \in 1 .. VideoIdLen |-> IF i = VideoIdLen THEN "!" ELSE "a"]
IdShort == <<"a", "Q", "4">>
IdLong == Rep("a", VideoIdLen + 1)

VideoIdValues ==
    {JStr(id) : id \in {IdAlnum, IdDashed, IdOnlyDashes, IdUnicode, IdPunct, IdShort, IdLong, <<>>}}
    \cup {JAbsent, JNull, JNum(0), JNum(2), JBool(TRUE)}
\* sensitivity: absent, null, 0.5, 1, 7.5, 10, 10.5, true, false, a string, 1e999
SensitivityValues ==
    {JAbsent, JNull, JNum(1), JNum(2), JNum(15), JNum(20), JNum(21),
     JBool(TRUE), JBool(FALSE), JStr(<<"4">>), JInf}
\* videoDuration: absent, null, 10, 10.5, 11, true, a string, 1e999
DurationValues ==
    {JAbsent, JNull, JNum(20), JNum(21), JNum(22), JBool(TRUE), JStr(<<"4">>), JInf}

Endpoints == {"analyze", "transcribe"}
Request(e, p, k, v, s, d) ==
    [endpoint |-> e, pathOk |-> p, bodyOk |-> k, videoId |-> v, sensitivity |-> s, videoDuration |-> d]
\* What one request may be: any path, body and videoId; the analyze endpoint's
\* two optional numbers over all their values.
Requests ==
    {Request(e, p, k, v, JAbsent, JAbsent) :
        e \in Endpoints, p \in BOOLEAN, k \in BOOLEAN, v \in VideoIdValues}
    \cup {Request("analyze", TRUE, TRUE, JStr(IdAlnum), s, d) :
            s \in SensitivityValues, d \in DurationValues}
\* The requests of the concurrent specification: well-formed, two identifiers.
ConcRequests ==
    {Request(e, TRUE, TRUE, JStr(id), JAbsent, JAbsent) : e \in Endpoints, id \in {IdAlnum, IdDashed}}
NoRequest == Request("transcribe", FALSE, FALSE, JAbsent, JAbsent, JAbsent)

\* ------------------------------------------------------------ responses
ErrInvalidEndpoint == "Invalid endpoint"
ErrInternal == "Internal server error"
ErrMissingAnalyze == "Missing 'videoId' in request body for ASR analysis."
ErrMissingTranscribe == "Missing 'videoId' in request body."
ErrInvalidId == "Invalid video ID format. YouTube video IDs should be 11 characters long."
ErrDownload == "Failed to download audio for video {video_id}"
ErrTranscribe == "Failed to transcribe audio: {error}"
ErrNoResults == "ASR transcription produced no results. The video may not contain speech or the audio quality is too poor."
ErrNoKey == "GEMINI_API_KEY environment variable not set"
ExtractionMethod == "huggingface-whisper-asr"

\* json.dumps({'error': message})
ErrorBody(message) ==
    [keys |-> {"error"}, error |-> message, extractionMethod |-> "", transcriptSegmentCount |-> 0, items |-> 0]
\* SuccessBody with the count taken from the items sent
SuccessBody_CountsItems(field, items, segment_count) ==
    [keys |-> {field, "extractionMethod", "transcriptSegmentCount"}, error |-> "",
     extractionMethod |-> ExtractionMethod, transcriptSegmentCount |-> Len(items),
     items |-> Len(items)]

\* json.dumps({field: items, 'extractionMethod': ..., 'transcriptSegmentCount': len(transcript)})
SuccessBody(field, items, segment_count) ==
    [keys |-> {field, "extractionMethod", "transcriptSegmentCount"}, error |-> "",
     extractionMethod |-> ExtractionMethod, transcriptSegmentCount |-> segment_count,
     items |-> Len(items)]

\* ----------------------------------------------------------- temp files
NoPath == [dir |-> "", name |-> <<>>]
\* os.path.join(tempfile.gettempdir(), f"{video_id}.wav")
OutputPath(video_id) == [dir |-> "tmp", name |-> video_id]

\* ------------------------------------------------- speech-model results
\* One chunk of the model's result; start and end are in half seconds, a
\* chunk may lack a key, and the last chunk's end may be None.
Chunk(s, e) == [hasTimestamp |-> TRUE, hasText |-> TRUE, start |-> s, end |-> e, endNone |-> FALSE]
ChunkStarts == {0, 22, 23, 901}
ChunkValues ==
    {Chunk(s, s + 1) : s \in ChunkStarts}
    \cup {[Chunk(0, 1) EXCEPT !.hasText = FALSE], [Chunk(0, 1) EXCEPT !.endNone = TRUE]}
SeqsUpTo(S, n) == UNION {[1 .. k -> S] : k \in 0 .. n}
\* result: {'chunks': [...]}, {'text': ...} or neither key
WhisperResults ==
    {[kind |-> "chunks", chunks |-> c] : c \in SeqsUpTo(ChunkValues, MaxChunks)}
    \cup {[kind |-> "text", chunks |-> <<>>], [kind |-> "neither", chunks |-> <<>>]}
\* result before transcriber(...) has returned
NoResult == [kind |-> "none", chunks |-> <<>>]
ConcResults ==
    {[kind |-> "chunks", chunks |-> c] : c \in {<<>>, <<Chunk(0, 1)>>}}

\* int(seconds * 1000), seconds given in halves
Millis(halves) ==
    IF halves >= 0 THEN (halves * MsPerSec) \div 2 ELSE -(((-halves) * MsPerSec) \div 2)

\* Segment with the chunk's end taken for its duration
Segment_EndAsDuration(chunk) ==
    [offset |-> Millis(chunk.start), hasDuration |-> TRUE, duration |-> Millis(chunk.end)]

\* segments.append({'offset': ..., 'text': ..., 'duration': ...})
Segment(chunk) ==
    [offset |-> Millis(chunk.start), hasDuration |-> TRUE, duration |-> Millis(chunk.end - chunk.start)]
RECURSIVE ChunkSegments(_)
\* the loop over result['chunks']: a chunk lacking a key is passed over
ChunkSegments(chunks) ==
    IF chunks = <<>> THEN <<>>
    ELSE IF Head(chunks).hasTimestamp /\ Head(chunks).hasText
         THEN <<Segment(Head(chunks))>> \o ChunkSegments(Tail(chunks))
         ELSE ChunkSegments(Tail(chunks))
\* None - float raises TypeError inside the try
ChunkRaises(chunk) == chunk.hasTimestamp /\ chunk.hasText /\ chunk.endNone

\* transcribe_audio after the model has answered: the segments, or the
\* exception the except clause re-raises
transcribe_audio(result) ==
    IF result.kind = "chunks"
    THEN IF \E i \in 1 .. Len(result.chunks) : ChunkRaises(result.chunks[i])
         THEN [ok |-> FALSE, segments |-> <<>>]
         ELSE [ok |-> TRUE, segments |-> ChunkSegments(result.chunks)]
    ELSE IF result.kind = "text"
         THEN [ok |-> TRUE, segments |-> <<[offset |-> 0, hasDuration |-> FALSE, duration |-> 0]>>]
         ELSE [ok |-> TRUE, segments |-> <<>>]

\* --------------------------------------------------- remote-model replies
RequiredFields == {"category", "subCategory", "description", "phrase"}
ReplyTimestamps == {0, 999}
\* What one requests.post may bring: an exception (timeout, connection
\* error, malformed envelope), a status, and for 200 the reply text:
\*   empty, quoted_empty      "" and '""'
\*   no_json                  not JSON and no {...} in it
\*   bad_braces               not JSON, a {...} in it that is not JSON either
\*   json, wrapped_json       JSON; JSON object inside other text
\* and the parsed value: its JSON type, the names it holds (an object's keys,
\* an array's elements, the field names occurring in a string), whether Python
\* takes it for true, and the value under 'timestamp' when it holds one.
Reply(st, tx, ty, m, tr, ts) ==
    [status |-> st, text |-> tx, type |-> ty, members |-> m, truthy |-> tr, timestamp |-> ts]
MemberSets ==
    {RequiredFields, {}, {"timestamp"}} \cup {RequiredFields \ {f} : f \in RequiredFields}
RemoteReplies ==
    {Reply("exception", "", "null", {}, FALSE, 0), Reply("500", "", "null", {}, FALSE, 0)}
    \cup {Reply("200", tx, "null", {}, FALSE, 0) : tx \in {"empty", "quoted_empty", "no_json", "bad_braces"}}
    \cup {Reply("200", tx, "object", m, m # {}, 0) : tx \in {"json", "wrapped_json"}, m \in MemberSets}
    \cup {Reply("200", tx, "object", RequiredFields \cup {"timestamp"}, TRUE, ts) :
            tx \in {"json", "wrapped_json"}, ts \in ReplyTimestamps}
    \cup {Reply("200", "json", ty, m, m # {}, 0) : ty \in {"array", "string"}, m \in {RequiredFields, {}}}
    \cup {Reply("200", "json", "number", {}, tr, 0) : tr \in BOOLEAN}
    \cup {Reply("200", "json", "null", {}, FALSE, 0)}
ConcReplies ==
    {Reply("500", "", "null", {}, FALSE, 0), Reply("200", "json", "object", RequiredFields, TRUE, 0)}

\* os.getenv('GEMINI_API_KEY'): None, '' or a key
KeyValues == {"unset", "empty", "set"}

\* ------------------------------------------------------------- state
VARIABLES
    GEMINI_API_KEY,     \* the environment variable, as os.getenv sees it
    fs,                 \* the temp directory: {[path, writer]}, one record a file
    request,            \* request[r]: the path and body request r came with
    pc,                 \* pc[r]: where r's handler stands
    status,             \* status[r]: the status line sent (0: none yet)
    bodies,             \* bodies[r]: what self.wfile.write has sent, in order
    audio_path,         \* the handler's locals
    transcript,
    sensitivity_index,
    max_timestamp,
    analysis_events,    \* analyze_with_gemini's list
    seg_i,              \* ... and its loop index (from 1)
    calls,              \* calls[r][f]: how often r has called f
    posts,              \* posts[r]: the segments r posted to the remote model
    outcomes,           \* outcomes[r][i]: what became of segment i's visit
    returned,           \* returned[r]: the functions that returned to r normally
    read_from,          \* read_from[r]: whose download transcribe read (0: none)
    removed,            \* removed[r]: the writers of the files r's cleanup removed
    whisper_result      \* whisper_result[r]: what the speech model returned to r

vars ==
    <<GEMINI_API_KEY, fs, request, pc, status, bodies, audio_path, transcript,
      sensitivity_index, max_timestamp, analysis_events, seg_i, calls, posts,
      outcomes, returned, read_from, removed, whisper_result>>

Functions == {"fetch", "transcribe", "classify", "cleanup"}

\* os.path.exists(path)
Exists(files, path) == \E f \in files : f.path = path
WriterOf(files, path) == (CHOOSE f \in files : f.path = path).writer
\* the download writes (or overwrites) the file at path
WriteFile(files, path, r) == {f \in files : f.path # path} \cup {[path |-> path, writer |-> r]}
\* os.remove(path)
RemoveFile(files, path) == {f \in files : f.path # path}

\* cleanup_audio_file: remove the file when it is there
cleanup_audio_file(files, path) ==
    IF Exists(files, path) THEN RemoveFile(files, path) ELSE files

InitFrames ==
    /\ fs = {}
    /\ status = [r \in Reqs |-> 0]
    /\ bodies = [r \in Reqs |-> <<>>]
    /\ audio_path = [r \in Reqs |-> NoPath]
    /\ transcript = [r \in Reqs |-> <<>>]
    /\ sensitivity_index = [r \in Reqs |-> 0]
    /\ max_timestamp = [r \in Reqs |-> 0]
    /\ analysis_events = [r \in Reqs |-> <<>>]
    /\ seg_i = [r \in Reqs |-> 0]
    /\ calls = [r \in Reqs |-> [f \in Functions |-> 0]]
    /\ posts = [r \in Reqs |-> <<>>]
    /\ outcomes = [r \in Reqs |-> <<>>]
    /\ returned = [r \in Reqs |-> {}]
    /\ read_from = [r \in Reqs |-> 0]
    /\ removed = [r \in Reqs |-> {}]
    /\ whisper_result = [r \in Reqs |-> NoResult]

\* One request arrives at an idle server.
Init ==
    /\ GEMINI_API_KEY \in KeyValues
    /\ \E q \in Requests : request = [r \in Reqs |-> IF r = 1 THEN q ELSE NoRequest]
    /\ pc = [r \in Reqs |-> IF r = 1 THEN "start" ELSE "off"]
    /\ InitFrames

\* NumReq well-formed requests arrive together.
InitConc ==
    /\ GEMINI_API_KEY \in KeyValues
    /\ request \in [Reqs -> ConcRequests]
    /\ pc = [r \in Reqs |-> "start"]
    /\ InitFrames

\* ------------------------------------------------------------ handlers
\* self.wfile.write(json.dumps(body)), the handler going on at `next`
Write(r, body, next) ==
    /\ bodies' = [bodies EXCEPT ![r] = Append(@, body)]
    /\ pc' = [pc EXCEPT ![r] = next]

Called(r, f) == calls' = [calls EXCEPT ![r][f] = @ + 1]

\* isinstance(sensitivity, (int, float)) and 1 <= sensitivity <= 10
SensitivityAccepted(sensitivity) ==
    /\ IsIntOrFloat(sensitivity)
    /\ sensitivity.t # "inf"
    /\ 2 * MinSensitivity <= Halves(sensitivity)
    /\ Halves(sensitivity) <= 2 * MaxSensitivity
\* isinstance(video_duration, (int, float)) and video_duration > 10
DurationAccepted(video_duration) ==
    /\ IsIntOrFloat(video_duration)
    /\ (video_duration.t = "inf" \/ Halves(video_duration) > 2 * MinDuration)

\* sensitivity_index = 5, replaced by int(sensitivity) when accepted
SensitivityIndex(sensitivity) ==
    IF SensitivityAccepted(sensitivity) THEN IntTrunc(Halves(sensitivity)) ELSE DefaultSensitivity
\* max_timestamp = 450, replaced by int(video_duration) when accepted
MaxTimestamp(video_duration) ==
    IF DurationAccepted(video_duration) THEN IntTrunc(Halves(video_duration)) ELSE DefaultDuration

\* The message the handler answers with before it reaches the download, or
\* "" when the request goes on to it.  endpoint tells the two handlers apart.
Rejection(req) ==
    LET video_id == Get(req.videoId)
        video_duration == GetDefault(req.videoDuration, DefaultDuration)
    IN  IF ~req.pathOk THEN ErrInvalidEndpoint
        \* int(self.headers['Content-Length']), json.loads, request_data.get
        ELSE IF ~req.bodyOk THEN ErrInternal
        ELSE IF ~Truthy(video_id)
             THEN (IF req.endpoint = "analyze" THEN ErrMissingAnalyze ELSE ErrMissingTranscribe)
        \* len() of a number or of True raises TypeError
        ELSE IF video_id.t # "str" THEN ErrInternal
        ELSE IF ~ValidVideoId(video_id.s) THEN ErrInvalidId
        \* int(float('inf')) raises OverflowError
        ELSE IF req.endpoint = "analyze" /\ DurationAccepted(video_duration)
                /\ video_duration.t = "inf" THEN ErrInternal
        ELSE ""

\* do_POST from its first line to the inner try
Validate(r) ==
    /\ pc[r] = "start"
    /\ status' = [status EXCEPT ![r] = HttpOk]
    /\ IF Rejection(request[r]) # ""
       THEN /\ Write(r, ErrorBody(Rejection(request[r])), "done")
            /\ UNCHANGED <<sensitivity_index, max_timestamp>>
       ELSE /\ pc' = [pc EXCEPT ![r] = "download"]
            /\ IF request[r].endpoint = "analyze"
               THEN /\ sensitivity_index' = [sensitivity_index EXCEPT ![r] =
                          SensitivityIndex(GetDefault(request[r].sensitivity, DefaultSensitivity))]
                    /\ max_timestamp' = [max_timestamp EXCEPT ![r] =
                          MaxTimestamp(GetDefault(request[r].videoDuration, DefaultDuration))]
               ELSE UNCHANGED <<sensitivity_index, max_timestamp>>
            /\ UNCHANGED bodies
    /\ UNCHANGED <<GEMINI_API_KEY, fs, request, audio_path, transcript, analysis_events,
                   seg_i, calls, posts, outcomes, returned, read_from, removed, whisper_result>>

\* audio_path = download_youtube_audio(video_id): the file is written and its
\* path returned, or the download raises, having left a file behind or not
Download(r) ==
    /\ pc[r] = "download"
    /\ Called(r, "fetch")
    /\ \E ok \in BOOLEAN, left \in BOOLEAN :
        LET output_path == OutputPath(request[r].videoId.s)
        IN  /\ fs' = IF ok \/ left THEN WriteFile(fs, output_path, r) ELSE fs
            /\ IF ok
               THEN /\ audio_path' = [audio_path EXCEPT ![r] = output_path]
                    /\ returned' = [returned EXCEPT ![r] = @ \cup {"fetch"}]
                    /\ pc' = [pc EXCEPT ![r] = "transcribe"]
                    /\ UNCHANGED bodies
               ELSE /\ Write(r, ErrorBody(ErrDownload), "finally")
                    /\ UNCHANGED <<audio_path, returned>>
    /\ UNCHANGED <<GEMINI_API_KEY, request, status, transcript, sensitivity_index,
                   max_timestamp, analysis_events, seg_i, posts, outcomes, read_from, removed, whisper_result>>

\* EmptyTranscript with the test left out
EmptyTranscript_Never(segments) == FALSE

\* if len(transcript) == 0
EmptyTranscript(segments) == Len(segments) = 0

\* transcript = transcribe_audio(audio_path) and the handler's lines after it
Transcribe(r, results) ==
    /\ pc[r] = "transcribe"
    /\ Called(r, "transcribe")
    /\ \E result \in results, model_ok \in BOOLEAN :
        LET there == Exists(fs, audio_path[r])
            out == IF there /\ model_ok THEN transcribe_audio(result)
                   ELSE [ok |-> FALSE, segments |-> <<>>]
        IN  /\ read_from' = [read_from EXCEPT ![r] = IF there THEN WriterOf(fs, audio_path[r]) ELSE 0]
            /\ transcript' = [transcript EXCEPT ![r] = out.segments]
            /\ whisper_result' = [whisper_result EXCEPT ![r] =
                   IF there /\ model_ok THEN result ELSE NoResult]
            /\ returned' = [returned EXCEPT ![r] = IF out.ok THEN @ \cup {"transcribe"} ELSE @]
            /\ IF ~out.ok THEN Write(r, ErrorBody(ErrTranscribe), "finally")
               ELSE IF EmptyTranscript(out.segments) THEN Write(r, ErrorBody(ErrNoResults), "finally")
               ELSE IF request[r].endpoint = "transcribe"
                    THEN Write(r, SuccessBody("transcript", out.segments, Len(out.segments)), "finally")
               ELSE /\ pc' = [pc EXCEPT ![r] = "classify"]
                    /\ UNCHANGED bodies
    /\ UNCHANGED <<GEMINI_API_KEY, fs, request, status, audio_path, sensitivity_index,
                   max_timestamp, analysis_events, seg_i, posts, outcomes, removed>>

\* -------------------------------------------------- analyze_with_gemini
\* BeyondCutoff with // for /
BeyondCutoff_FloorDiv(segment, cutoff) == (segment.offset \div MsPerSec) > cutoff

\* if segment['offset'] / 1000 > max_timestamp: continue
BeyondCutoff(segment, cutoff) == segment.offset > cutoff * MsPerSec

\* event_obj is bound: json.loads took the text, or took the {...} in it
Parsed(reply) == reply.status = "200" /\ reply.text \in {"json", "wrapped_json"}

\* HasRequiredFields with 'phrase' left out of the test
HasRequiredFields_ForgetsPhrase(reply) ==
    reply.truthy /\ (RequiredFields \ {"phrase"}) \subseteq reply.members

\* the condition of the if before analysis_events.append
HasRequiredFields(reply) == reply.truthy /\ RequiredFields \subseteq reply.members

\* The iteration ends in the except clause: requests.post raised, the {...}
\* found by the regex is no JSON, `'category' in` a number, or ** of a value
\* that is no mapping.
IterationRaises(reply) ==
    \/ reply.status = "exception"
    \/ reply.status = "200" /\ reply.text = "bad_braces"
    \/ Parsed(reply) /\ reply.truthy /\ reply.type = "number"
    \/ Parsed(reply) /\ HasRequiredFields(reply) /\ reply.type # "object"

\* {'timestamp': int(segment['offset'] / 1000), **event_obj}
\* (segment: the index of the segment the event was made from)
EventOf(segment, i, reply) ==
    [timestamp |-> IF "timestamp" \in reply.members THEN reply.timestamp
                   ELSE IntTrunc(2 * segment.offset) \div MsPerSec,
     fields |-> reply.members \cup {"timestamp"},
     segment |-> i]

\* what one iteration of the loop appends to analysis_events
SegmentEvents(segment, i, reply) ==
    IF IterationRaises(reply) THEN <<>>
    ELSE IF Parsed(reply) /\ HasRequiredFields(reply) THEN <<EventOf(segment, i, reply)>>
    ELSE <<>>

\* the reply is a JSON object holding the four required fields
ValidReply(reply) ==
    /\ reply.status = "200"
    /\ reply.text \in {"json", "wrapped_json"}
    /\ reply.type = "object"
    /\ RequiredFields \subseteq reply.members

\* KeyMissing as `os.getenv('GEMINI_API_KEY') == ''`
KeyMissing_OnlyEmpty(key) == key = "empty"

\* if not os.getenv('GEMINI_API_KEY')
KeyMissing(key) == key \in {"unset", "empty"}

\* the call of analyze_with_gemini and its credential check
Classify(r) ==
    /\ pc[r] = "classify"
    /\ Called(r, "classify")
    /\ IF KeyMissing(GEMINI_API_KEY)
       THEN /\ Write(r, ErrorBody(ErrNoKey), "finally")
            /\ UNCHANGED seg_i
       ELSE /\ pc' = [pc EXCEPT ![r] = "segments"]
            /\ seg_i' = [seg_i EXCEPT ![r] = 1]
            /\ UNCHANGED bodies
    /\ UNCHANGED <<GEMINI_API_KEY, fs, request, status, audio_path, transcript,
                   sensitivity_index, max_timestamp, analysis_events, posts, outcomes,
                   returned, read_from, removed, whisper_result>>

\* one iteration of the loop over transcript_segments
AnalyzeSegment(r, replies) ==
    /\ pc[r] = "segments"
    /\ seg_i[r] <= Len(transcript[r])
    /\ seg_i' = [seg_i EXCEPT ![r] = @ + 1]
    /\ \E reply \in replies :
        LET i == seg_i[r]
            segment == transcript[r][i]
        IN  IF BeyondCutoff(segment, max_timestamp[r])
            THEN /\ outcomes' = [outcomes EXCEPT ![r] = Append(@, "skipped")]
                 /\ UNCHANGED <<posts, analysis_events>>
            ELSE /\ posts' = [posts EXCEPT ![r] = Append(@, i)]
                 /\ outcomes' = [outcomes EXCEPT ![r] =
                        Append(@, IF ValidReply(reply) THEN "valid" ELSE "other")]
                 /\ analysis_events' = [analysis_events EXCEPT ![r] =
                        @ \o SegmentEvents(segment, i, reply)]
    /\ UNCHANGED <<GEMINI_API_KEY, fs, request, pc, status, bodies, audio_path, transcript,
                   sensitivity_index, max_timestamp, calls, returned, read_from, removed, whisper_result>>

\* return analysis_events, and the handler's success body
ReturnEvents(r) ==
    /\ pc[r] = "segments"
    /\ seg_i[r] > Len(transcript[r])
    /\ Write(r, SuccessBody("events", analysis_events[r], Len(transcript[r])), "finally")
    /\ UNCHANGED <<GEMINI_API_KEY, fs, request, status, audio_path, transcript,
                   sensitivity_index, max_timestamp, analysis_events, seg_i, calls, posts,
                   outcomes, returned, read_from, removed, whisper_result>>

\* finally: if audio_path: cleanup_audio_file(audio_path)
Finally(r) ==
    /\ pc[r] = "finally"
    /\ pc' = [pc EXCEPT ![r] = "done"]
    /\ IF audio_path[r] # NoPath
       THEN /\ Called(r, "cleanup")
            /\ fs' = cleanup_audio_file(fs, audio_path[r])
            /\ removed' = [removed EXCEPT ![r] =
                   IF Exists(fs, audio_path[r]) THEN {WriterOf(fs, audio_path[r])} ELSE {}]
       ELSE UNCHANGED <<calls, fs, removed>>
    /\ UNCHANGED <<GEMINI_API_KEY, request, status, bodies, audio_path, transcript,
                   sensitivity_index, max_timestamp, analysis_events, seg_i, posts,
                   outcomes, returned, read_from, whisper_result>>

\* ------------------------------------------------------- specifications
Next ==
    \E r \in Reqs :
        \/ Validate(r)
        \/ Download(r)
        \/ Transcribe(r, WhisperResults)
        \/ Classify(r)
        \/ AnalyzeSegment(r, RemoteReplies)
        \/ ReturnEvents(r)
        \/ Finally(r)

\* one request at a time
Spec == Init /\ [][Next]_vars

NextConc ==
    \E r \in Reqs :
        \/ Validate(r)
        \/ Download(r)
        \/ Transcribe(r, ConcResults)
        \/ Classify(r)
        \/ AnalyzeSegment(r, ConcReplies)
        \/ ReturnEvents(r)
        \/ Finally(r)

\* NumReq requests in flight together, their steps interleaved
ConcSpec == InitConc /\ [][NextConc]_vars

\* --------------------------------------------------------------- claims
Answered(r) == pc[r] \in {"finally", "done"}
IsErrorBody(body) == body.keys = {"error"} /\ body.error # ""
IsSuccessBody(body, field) ==
    /\ body.keys = {field, "extractionMethod", "transcriptSegmentCount"}
    /\ body.extractionMethod = ExtractionMethod

\* C1: when a handler has returned, the temporary file at the path derived
\* from its request's videoId does not exist, and cleanup has been invoked
\* exactly once if the fetch step was started.
C1_CleanupOnEveryExit ==
    \A r \in Reqs :
        pc[r] = "done" =>
            /\ request[r].videoId.t = "str" => ~Exists(fs, OutputPath(request[r].videoId.s))
            /\ calls[r]["fetch"] > 0 => calls[r]["cleanup"] = 1

\* an 11-character string of ASCII letters, digits, '-' and '_'
ClaimedValidId(v) ==
    /\ v.t = "str"
    /\ Len(v.s) = VideoIdLen
    /\ \A i \in 1 .. Len(v.s) : v.s[i] \in AsciiLetters \cup AsciiDigits \cup {"-", "_"}
\* nothing but the videoId stands between the request and the download
WellFormedOtherwise(req) == req.pathOk /\ req.bodyOk /\ req.videoDuration.t # "inf"

\* C2: a videoId of exactly 11 characters, each an ASCII letter, a digit, '-'
\* or '_', passes validation and the fetch step is invoked; every other
\* videoId is answered with an error body and nothing downstream is called.
C2_ValidationByFormat ==
    \A r \in Reqs :
        pc[r] \notin {"off", "start"} /\ WellFormedOtherwise(request[r]) =>
            IF ClaimedValidId(request[r].videoId)
            THEN pc[r] = "download" \/ calls[r]["fetch"] = 1
            ELSE /\ pc[r] = "done"
                 /\ Len(bodies[r]) = 1
                 /\ IsErrorBody(bodies[r][1])
                 /\ \A f \in Functions : calls[r][f] = 0

\* C3: every request is answered with status 200 and, once the handler has
\* answered, exactly one body: an error body holding only 'error', or the
\* endpoint's success body whose transcriptSegmentCount is the number of
\* transcript segments; never a second body.
C3_OneBodyStatus200 ==
    \A r \in Reqs :
        /\ pc[r] \notin {"off", "start"} => status[r] = HttpOk
        /\ Len(bodies[r]) <= 1
        /\ Answered(r) =>
            /\ Len(bodies[r]) = 1
            /\ \/ IsErrorBody(bodies[r][1])
               \/ /\ IsSuccessBody(bodies[r][1],
                        IF request[r].endpoint = "analyze" THEN "events" ELSE "transcript")
                  /\ bodies[r][1].transcriptSegmentCount = Len(transcript[r])
                  /\ bodies[r][1].items =
                        IF request[r].endpoint = "analyze" THEN Len(analysis_events[r])
                        ELSE Len(transcript[r])

\* an analyze request answered with fewer events than transcript segments
C3_Witness ==
    \E r \in Reqs :
        /\ pc[r] = "done"
        /\ request[r].endpoint = "analyze"
        /\ IsSuccessBody(bodies[r][1], "events")
        /\ Len(analysis_events[r]) = 1
        /\ Len(transcript[r]) = 2

\* the sensitivity the claim has classify receive: the request's number when
\* it lies in [1, 10] (as an integer), 5 for anything else
ClaimedSensitivity(v) ==
    IF v.t = "num" /\ 2 * MinSensitivity <= v.n /\ v.n <= 2 * MaxSensitivity
    THEN IntTrunc(v.n) ELSE DefaultSensitivity
\* the max timestamp the claim has classify receive
ClaimedMaxTimestamp(v) ==
    IF v.t = "num" /\ v.n > 2 * MinDuration THEN IntTrunc(v.n) ELSE DefaultDuration

\* C4: the sensitivity index passed to classify is the request's sensitivity
\* when that is a number in [1, 10] and 5 for every other value (absent, out of
\* range, boolean, string), and is an integer in 1..10; the max timestamp
\* passed is the request's videoDuration when that is a number greater than 10
\* and 450 otherwise, and is always greater than 10.
C4_DefaultsForBadNumbers ==
    \A r \in Reqs :
        request[r].endpoint = "analyze" /\ calls[r]["classify"] > 0 =>
            /\ sensitivity_index[r] = ClaimedSensitivity(request[r].sensitivity)
            /\ sensitivity_index[r] \in MinSensitivity .. MaxSensitivity
            /\ max_timestamp[r] = ClaimedMaxTimestamp(request[r].videoDuration)
            /\ max_timestamp[r] > MinDuration

\* the segment's offset in seconds, offset / 1000, is greater than cutoff
PastMax(segment, cutoff) == segment.offset > cutoff * MsPerSec
Indices(n) == [i \in 1 .. n |-> i]

\* C5: no event comes from a segment whose offset in seconds exceeds the max
\* timestamp, no remote request is issued for such a segment, and a visited
\* segment whose offset in seconds equals the max timestamp is posted.
C5_NothingPastMaxTimestamp ==
    \A r \in Reqs :
        /\ \A k \in 1 .. Len(analysis_events[r]) :
            ~PastMax(transcript[r][analysis_events[r][k].segment], max_timestamp[r])
        /\ \A k \in 1 .. Len(posts[r]) : ~PastMax(transcript[r][posts[r][k]], max_timestamp[r])
        /\ \A i \in 1 .. Len(outcomes[r]) :
            transcript[r][i].offset = max_timestamp[r] * MsPerSec =>
                \E k \in 1 .. Len(posts[r]) : posts[r][k] = i

\* an event from a segment exactly at the max timestamp, beside a segment
\* past it that was passed over
C5_Witness ==
    \E r \in Reqs :
        /\ pc[r] = "done"
        /\ \E k \in 1 .. Len(analysis_events[r]) :
            transcript[r][analysis_events[r][k].segment].offset = max_timestamp[r] * MsPerSec
        /\ \E i \in 1 .. Len(outcomes[r]) :
            outcomes[r][i] = "skipped" /\ PastMax(transcript[r][i], max_timestamp[r])

\* C6: whatever each remote call brings, classify visits every segment in
\* order and returns normally; its events are, in order, one for each posted
\* segment whose reply was valid and none for any other; every segment within
\* the cutoff is posted, whatever became of the segments before it.
C6_SegmentFailuresSkipped ==
    \A r \in Reqs :
        /\ pc[r] = "segments" => Len(outcomes[r]) = seg_i[r] - 1
        /\ calls[r]["classify"] > 0 /\ GEMINI_API_KEY = "set" /\ Answered(r) =>
            /\ Len(outcomes[r]) = Len(transcript[r])
            /\ IsSuccessBody(bodies[r][1], "events")
        /\ [k \in 1 .. Len(analysis_events[r]) |-> analysis_events[r][k].segment]
            = SelectSeq(Indices(Len(outcomes[r])), LAMBDA i : outcomes[r][i] = "valid")
        /\ posts[r] = SelectSeq(Indices(Len(outcomes[r])),
                                LAMBDA i : ~PastMax(transcript[r][i], max_timestamp[r]))

\* a failed segment followed by a segment that yields an event
C6_Witness ==
    \E r \in Reqs :
        /\ pc[r] = "done"
        /\ outcomes[r] = <<"other", "valid">>
        /\ Len(analysis_events[r]) = 1
        /\ analysis_events[r][1].segment = 2

\* C7: every event's timestamp is floor(offset / 1000) of the segment it was
\* made from, whatever the reply object holds.
C7_TimestampFromOffset ==
    \A r \in Reqs :
        \A k \in 1 .. Len(analysis_events[r]) :
            analysis_events[r][k].timestamp
                = transcript[r][analysis_events[r][k].segment].offset \div MsPerSec

\* C8: with the credential absent, classify posts nothing and goes on to no
\* segment, and the analyze endpoint answers with the credential error; the
\* transcribe endpoint never calls classify, never answers with that error,
\* and answers a non-empty transcript with its success body.
C8_MissingCredential ==
    \A r \in Reqs :
        /\ GEMINI_API_KEY = "unset" =>
            /\ posts[r] = <<>>
            /\ pc[r] # "segments"
            /\ calls[r]["classify"] > 0 => Answered(r) /\ bodies[r] = <<ErrorBody(ErrNoKey)>>
        /\ request[r].endpoint = "transcribe" =>
            /\ calls[r]["classify"] = 0
            /\ Len(bodies[r]) > 0 => bodies[r][1].error # ErrNoKey
            /\ Answered(r) /\ "transcribe" \in returned[r] /\ transcript[r] # <<>> =>
                IsSuccessBody(bodies[r][1], "transcript")

\* an analyze request with a transcript, answered with the credential error
C8_Witness ==
    \E r \in Reqs :
        /\ GEMINI_API_KEY = "unset"
        /\ pc[r] = "done"
        /\ request[r].endpoint = "analyze"
        /\ Len(transcript[r]) > 0
        /\ bodies[r] = <<ErrorBody(ErrNoKey)>>

\* C9: when transcribe has returned zero segments the response is the
\* no-results error and classify is not invoked (no credential check, no remote
\* request); classify is invoked only after fetch returned and transcribe
\* returned a non-empty sequence.
C9_EmptyTranscriptStops ==
    \A r \in Reqs :
        /\ "transcribe" \in returned[r] /\ transcript[r] = <<>> =>
            /\ Answered(r)
            /\ bodies[r] = <<ErrorBody(ErrNoResults)>>
            /\ calls[r]["classify"] = 0
            /\ posts[r] = <<>>
        /\ calls[r]["classify"] > 0 =>
            /\ {"fetch", "transcribe"} \subseteq returned[r]
            /\ Len(transcript[r]) > 0

\* an analyze request whose download succeeded and whose transcript is empty
C9_Witness ==
    \E r \in Reqs :
        /\ pc[r] = "done"
        /\ request[r].endpoint = "analyze"
        /\ returned[r] = {"fetch", "transcribe"}
        /\ transcript[r] = <<>>
        /\ bodies[r] = <<ErrorBody(ErrNoResults)>>

\* C10: from the end of its fetch to the end of its transcribe a request's
\* file is there and is the one its own download wrote, and a request's
\* cleanup removes no file another request wrote.
C10_ExclusiveOwnership ==
    \A r \in Reqs :
        /\ pc[r] = "transcribe" =>
            Exists(fs, audio_path[r]) /\ WriterOf(fs, audio_path[r]) = r
        /\ removed[r] \subseteq {r}

\* the segment is the chunk's: offset the start in milliseconds, duration
\* (end - start) in milliseconds (the chunk's times are in half seconds)
SegmentOfChunk(segment, chunk) ==
    /\ 2 * segment.offset = chunk.start * MsPerSec
    /\ segment.hasDuration
    /\ 2 * segment.duration = (chunk.end - chunk.start) * MsPerSec
NonDecreasing(seq, Key(_)) ==
    \A i \in 1 .. Len(seq) - 1 : Key(seq[i]) <= Key(seq[i + 1])
StartOf(chunk) == chunk.start
OffsetOf(segment) == segment.offset
\* the chunks holding both 'timestamp' and 'text'
KeptChunks(chunks) == SelectSeq(chunks, LAMBDA c : c.hasTimestamp /\ c.hasText)

\* C11 as stated: for a result with a chunk list transcribe returns one
\* segment per chunk, in chunk order, each with the chunk's offset and
\* duration; no chunk is dropped.
C11_OneSegmentPerChunk ==
    \A r \in Reqs :
        whisper_result[r].kind = "chunks" =>
            /\ "transcribe" \in returned[r]
            /\ Len(transcript[r]) = Len(whisper_result[r].chunks)
            /\ \A i \in 1 .. Len(transcript[r]) :
                SegmentOfChunk(transcript[r][i], whisper_result[r].chunks[i])

\* C11, amended: for a result with a chunk list transcribe returns one segment
\* per chunk that holds both 'timestamp' and 'text', in chunk order, each with
\* offset the chunk's start and duration (end - start) in milliseconds, offsets
\* non-decreasing whenever those chunks' starts are; a chunk lacking either key
\* yields no segment, and when the end of a chunk holding both is None
\* transcribe raises and the request is answered with the transcription
\* error.  For a result with a text and no chunk list it returns exactly one
\* segment, offset 0 and no duration.
C11_OneSegmentPerTimestampedChunk ==
    \A r \in Reqs :
        /\ whisper_result[r].kind = "chunks" =>
            LET kept == KeptChunks(whisper_result[r].chunks)
            IN  IF \E i \in 1 .. Len(kept) : kept[i].endNone
                THEN /\ "transcribe" \notin returned[r]
                     /\ bodies[r] = <<ErrorBody(ErrTranscribe)>>
                ELSE /\ "transcribe" \in returned[r]
                     /\ Len(transcript[r]) = Len(kept)
                     /\ \A i \in 1 .. Len(kept) : SegmentOfChunk(transcript[r][i], kept[i])
                     /\ NonDecreasing(kept, StartOf) => NonDecreasing(transcript[r], OffsetOf)
        /\ whisper_result[r].kind = "text" =>
            /\ "transcribe" \in returned[r]
            /\ Len(transcript[r]) = 1
            /\ transcript[r][1].offset = 0
            /\ ~transcript[r][1].hasDuration

\* a chunk list of two, the first without a text: one segment, the second
\* chunk's
C11_Witness ==
    \E r \in Reqs :
        /\ whisper_result[r].kind = "chunks"
        /\ Len(whisper_result[r].chunks) = 2
        /\ ~whisper_result[r].chunks[1].hasText
        /\ Len(transcript[r]) = 1
        /\ SegmentOfChunk(transcript[r][1], whisper_result[r].chunks[2])
        /\ transcript[r][1].offset > 0

==========================================================================
